---------------------------- MODULE Spec2Model ----------------------------
(***************************************************************************)
(* Scratchpad: a text area persisted to localStorage with a debounced      *)
(* auto-save, a save-status indicator, cross-tab synchronisation and a     *)
(* save-on-exit flush.  The repository holds the feature twice:            *)
(*   "legacy"  src/legacy_source/app.js        (plain script)              *)
(*   "react"   src/app/components/Scratchpad.tsx (component)               *)
(* Both are modelled; impl selects which one the tabs run.                 *)
(*                                                                         *)
(* Every handler body is synchronous, so one handler is one step.  For the *)
(* component version a step also includes the re-render the handler's      *)
(* state updates cause, so the effects of lines 111-143 always close over  *)
(* the committed content.                                                  *)
(***************************************************************************)
EXTENDS Integers, Sequences, FiniteSets, TLC

\* ------------------------------------------------------------------ bounds
MaxQueue == 1
MaxInputs == 3

\* ------------------------------------------------------------ value spaces
NULL == "<null>"
Values == {"", "a", "b"}
Impls == {"legacy", "react"}
Tabs == {1, 2}
Statuses == {"default", "saving", "saved", "error"}

\* What the storage does during one handler:
\*   ok        every call succeeds
\*   nowrite   setItem throws, reads succeed (the probe fails)
\*   noaccess  every access to localStorage throws, reads included (the probe
\*             fails; it differs from nowrite only where the code reads)
\*   quota     the probe passes, the write of the note throws QuotaExceededError
\*   ioerr     the probe passes, the write of the note throws another error
StartEnvs == {"ok", "nowrite", "noaccess"}
SaveEnvs == {"ok", "nowrite", "quota", "ioerr"}

VARIABLES
    impl,     \* which implementation the tabs run
    store,    \* localStorage: [note, theme], NULL when the key is absent
    tabs,     \* tabs[t]: the page state of tab t
    queue,    \* queue[t]: storage events (for the note key) not yet delivered to t
    last,     \* what the latest handler did (observation only)
    saved,    \* the note as the page last stored it, NULL once another
              \* document has written the key since (observation only)
    budget,   \* content-change events left (used by the bounded-typing specification)
    pair      \* one page of each implementation, each on a storage of its own,
              \* fed the same events (used by the lockstep specification)

vars == <<impl, store, tabs, queue, last, saved, budget, pair>>

\* ------------------------------------------------------------------ timers
\* setTimeout never returns an id twice, so a handle variable is null, names
\* a live timer, or is stale.  A handle is 0 (null) or 1 (holds an id); a
\* live timer records its kind, whether the handle of its kind names it (held)
\* and, for the component's save timer, the text its callback closed over.
Timer(kind, text) == [kind |-> kind, text |-> text, held |-> TRUE]

\* clearTimeout(handle of that kind): the timer the handle names, if live, is gone.
ClearTimeout(tb, kind) ==
    [tb EXCEPT !.timers = {x \in @ : ~(x.kind = kind /\ x.held)}]

\* handle = setTimeout(callback): a timer still live under the old value of the
\* handle is no longer named by it.
SetTimeout(tb, kind, text) ==
    LET orphaned == {IF x.kind = kind THEN [x EXCEPT !.held = FALSE] ELSE x : x \in tb.timers}
        armed == [tb EXCEPT !.timers = orphaned \cup {Timer(kind, text)}]
    IN  IF kind = "save" THEN [armed EXCEPT !.saveTimeout = 1]
        ELSE [armed EXCEPT !.statusTimeout = 1]

SaveTimers(tb) == {x \in tb.timers : x.kind = "save"}
StatusTimers(tb) == {x \in tb.timers : x.kind = "status"}

\* --------------------------------------------------------------- page state
ClosedTab ==
    [phase |-> "closed", content |-> "", status |-> "default", showError |-> FALSE,
     isDark |-> FALSE, saveTimeout |-> 0, statusTimeout |-> 0, timers |-> {},
     typed |-> "", burst |-> 0, cycle |-> << >>, writes |-> 0]

\* The tab has its event listeners registered.
Listening(tb) ==
    \/ tb.phase = "running"
    \/ impl = "react" /\ tb.phase = "blocked"

\* What a handler did: the result of running a piece of code on a tab.
Effect(tb, probe, wrote, wval, ok, alert, notice) ==
    [tb |-> tb, probe |-> probe, wrote |-> wrote, wval |-> wval, ok |-> ok,
     alert |-> alert, notice |-> notice, read |-> FALSE]

NoEffect(tb) == Effect(tb, FALSE, FALSE, NULL, FALSE, FALSE, FALSE)

\* The effect of a handler that also read the note key.
WithRead(eff) == [eff EXCEPT !.read = TRUE]

ProbeOK(env) == env \notin {"nowrite", "noaccess"}


\* The status indicator changes to st.  typed, burst, cycle and writes observe
\* the current burst of content changes: the text of the latest one, how many
\* there were (1, or 2 for more), the statuses shown since the burst began
\* and the writes of the note key since the latest change (0, 1, or 2 for
\* more), for as long as the tab handles nothing but content changes and
\* timer firings.
SetStatus(tb, st) ==
    [tb EXCEPT !.status = st,
               !.cycle = IF @ # << >> /\ @[Len(@)] # st THEN Append(@, st) ELSE @]

\* The tab handled an event other than a content change or a timer firing.
Disturb(tb) == [tb EXCEPT !.cycle = << >>, !.typed = "", !.burst = 0, !.writes = 0]

CountWrite(tb) == [tb EXCEPT !.writes = IF @ < 2 THEN @ + 1 ELSE 2]

\* ------------------------------------------------------ legacy: app.js code
\* updateSaveStatus(status) without the timer of its 'saved' case
UpdateSaveStatusNoReset(tb, st) ==
    SetStatus(IF tb.statusTimeout # 0
              THEN [ClearTimeout(tb, "status") EXCEPT !.statusTimeout = 0]
              ELSE tb, st)

\* updateSaveStatus(status)
UpdateSaveStatus(tb, st) ==
    LET cleared == IF tb.statusTimeout # 0
                   THEN [ClearTimeout(tb, "status") EXCEPT !.statusTimeout = 0]
                   ELSE tb
        shown == SetStatus(cleared, st)
    IN  IF st = "saved" THEN SetTimeout(shown, "status", "") ELSE shown

\* saveNotes() without the showError() of its unavailable branch
LegacySaveNotesNoNotice(tb, env) ==
    IF ~ProbeOK(env)
    THEN Effect(UpdateSaveStatus(tb, "error"), TRUE, FALSE, NULL, FALSE, FALSE, FALSE)
    ELSE IF env = "ok"
         THEN Effect(UpdateSaveStatus(CountWrite(tb), "saved"),
                     TRUE, TRUE, tb.content, TRUE, FALSE, FALSE)
         ELSE Effect(UpdateSaveStatus(CountWrite(tb), "error"),
                     TRUE, TRUE, tb.content, FALSE, env = "quota", FALSE)

\* saveNotes()
LegacySaveNotes(tb, env) ==
    IF ~ProbeOK(env)
    THEN Effect([UpdateSaveStatus(tb, "error") EXCEPT !.showError = TRUE],
                TRUE, FALSE, NULL, FALSE, FALSE, TRUE)
    ELSE LET content == tb.content
             tried == CountWrite(tb)
         IN  CASE env = "ok" ->
                    Effect(UpdateSaveStatus(tried, "saved"),
                           TRUE, TRUE, content, TRUE, FALSE, FALSE)
               [] env = "quota" ->
                    Effect(UpdateSaveStatus(tried, "error"),
                           TRUE, TRUE, content, FALSE, TRUE, FALSE)
               [] OTHER ->
                    Effect(UpdateSaveStatus(tried, "error"),
                           TRUE, TRUE, content, FALSE, FALSE, FALSE)

\* handleInput() without its clearTimeout(saveTimeout)
LegacyHandleInputKeepsTimer(tb, v) ==
    SetTimeout(UpdateSaveStatus([tb EXCEPT !.content = v], "saving"), "save", "")

\* handleInput(): the text area already holds the new text v
LegacyHandleInput(tb, v) ==
    LET edited == [tb EXCEPT !.content = v]
        shown == UpdateSaveStatus(edited, "saving")
        cleared == IF shown.saveTimeout # 0 THEN ClearTimeout(shown, "save") ELSE shown
    IN  SetTimeout(cleared, "save", "")

\* handleStorageEvent(e) without the "|| ''" of its assignment
LegacyHandleStorageEventNoDefault(tb, key, newValue) ==
    IF key = "scratchpad_notes" /\ newValue # tb.content
    THEN [tb EXCEPT !.content = newValue]
    ELSE tb

\* handleStorageEvent(e)
LegacyHandleStorageEvent(tb, key, newValue) ==
    IF key = "scratchpad_notes"
    THEN IF newValue # tb.content
         THEN [tb EXCEPT !.content = IF newValue = NULL \/ newValue = "" THEN "" ELSE newValue]
         ELSE tb
    ELSE tb

\* the visibilitychange listener of init(), with document.hidden true
LegacyOnHidden(tb, env) ==
    IF tb.saveTimeout # 0
    THEN LegacySaveNotes(ClearTimeout(tb, "save"), env)
    ELSE NoEffect(tb)

\* the beforeunload listener of init()
LegacyOnBeforeUnload(tb, env) ==
    IF tb.saveTimeout # 0
    THEN LegacySaveNotes(ClearTimeout(tb, "save"), env)
    ELSE NoEffect(tb)

\* init() whose loadNotes ends with updateSaveStatus('saved')
LegacyInitShowsSaved(tb, env) ==
    IF env = "noaccess"
    THEN Effect([tb EXCEPT !.phase = "aborted"], FALSE, FALSE, NULL, FALSE, FALSE, FALSE)
    ELSE IF ~ProbeOK(env)
         THEN Effect([tb EXCEPT !.phase = "blocked", !.showError = TRUE],
                     TRUE, FALSE, NULL, FALSE, FALSE, TRUE)
         ELSE WithRead(Effect([UpdateSaveStatus(
                                   [tb EXCEPT !.content = IF store.note # NULL
                                                          THEN store.note ELSE @],
                                   "saved")
                               EXCEPT !.phase = "running"],
                              TRUE, FALSE, NULL, TRUE, FALSE, FALSE))

\* init(): initTheme, the availability check, loadNotes, the listeners
LegacyInit(tb, env) ==
    IF env = "noaccess"
    THEN \* initTheme's getItem throws: init ends there
         Effect([tb EXCEPT !.phase = "aborted"], FALSE, FALSE, NULL, FALSE, FALSE, FALSE)
    ELSE LET themed == [tb EXCEPT !.isDark = (store.theme = "dark")]
         IN  IF ~ProbeOK(env)
             THEN Effect([themed EXCEPT !.phase = "blocked", !.showError = TRUE],
                         TRUE, FALSE, NULL, FALSE, FALSE, TRUE)
             ELSE LET loaded == IF store.note # NULL
                                THEN [themed EXCEPT !.content = store.note]
                                ELSE themed
                  IN  WithRead(Effect([UpdateSaveStatus(loaded, "default")
                                          EXCEPT !.phase = "running"],
                                      TRUE, FALSE, NULL, TRUE, FALSE, FALSE))

\* handleThemeToggle(): the page shows the other theme, then the theme key
\* is written outside any try; wrote tells whether setItem returned.
LegacyHandleThemeToggle(tb, env) ==
    LET isDark == tb.isDark
        newIsDark == ~isDark
    IN  [tb |-> [tb EXCEPT !.isDark = newIsDark],
         wrote |-> ProbeOK(env),
         value |-> IF newIsDark THEN "dark" ELSE "light"]

\* ------------------------------------------------ react: Scratchpad.tsx code
\* saveNotes(text) alerting on every error of the write
ReactSaveNotesAlertsAlways(tb, text, env) ==
    IF ~ProbeOK(env)
    THEN Effect([SetStatus(tb, "error") EXCEPT !.showError = TRUE],
                TRUE, FALSE, NULL, FALSE, FALSE, TRUE)
    ELSE IF env = "ok"
         THEN Effect(SetTimeout(ClearTimeout(SetStatus(CountWrite(tb), "saved"), "status"),
                                "status", ""),
                     TRUE, TRUE, text, TRUE, FALSE, FALSE)
         ELSE Effect(SetStatus(CountWrite(tb), "error"), TRUE, TRUE, text, FALSE, TRUE, FALSE)

\* saveNotes(text)
ReactSaveNotes(tb, text, env) ==
    IF ~ProbeOK(env)
    THEN Effect([SetStatus(tb, "error") EXCEPT !.showError = TRUE],
                TRUE, FALSE, NULL, FALSE, FALSE, TRUE)
    ELSE LET tried == CountWrite(tb) IN
         IF env = "ok"
         THEN LET shown == SetStatus(tried, "saved")
                  cleared == IF shown.statusTimeout # 0
                             THEN ClearTimeout(shown, "status")
                             ELSE shown
              IN  Effect(SetTimeout(cleared, "status", ""),
                         TRUE, TRUE, text, TRUE, FALSE, FALSE)
         ELSE Effect(SetStatus(tried, "error"),
                     TRUE, TRUE, text, FALSE, env = "quota", FALSE)

\* handleInput(e) without its clearTimeout(saveTimeoutRef.current)
ReactHandleInputKeepsTimer(tb, v) ==
    SetTimeout(SetStatus([tb EXCEPT !.content = v], "saving"), "save", v)

\* handleInput(e), e.target.value = v
ReactHandleInput(tb, v) ==
    LET newContent == v
        shown == SetStatus([tb EXCEPT !.content = newContent], "saving")
        cleared == IF shown.saveTimeout # 0 THEN ClearTimeout(shown, "save") ELSE shown
    IN  SetTimeout(cleared, "save", newContent)

\* handleStorage(e) that also schedules a save of the value it applied
ReactHandleStorageResaves(tb, key, newValue) ==
    IF key = "scratchpad_notes" /\ newValue # tb.content
    THEN SetTimeout([tb EXCEPT !.content = IF newValue = NULL THEN "" ELSE newValue],
                    "save", IF newValue = NULL THEN "" ELSE newValue)
    ELSE tb

\* handleStorage(e)
ReactHandleStorage(tb, key, newValue) ==
    IF key = "scratchpad_notes" /\ newValue # tb.content
    THEN [tb EXCEPT !.content = IF newValue = NULL \/ newValue = "" THEN "" ELSE newValue]
    ELSE tb

\* handleVisibilityChange(), with document.hidden true
ReactHandleVisibilityChange(tb, env) ==
    IF tb.saveTimeout # 0
    THEN ReactSaveNotes(ClearTimeout(tb, "save"), tb.content, env)
    ELSE NoEffect(tb)

\* handleBeforeUnload()
ReactHandleBeforeUnload(tb, env) ==
    IF tb.saveTimeout # 0
    THEN ReactSaveNotes(tb, tb.content, env)
    ELSE NoEffect(tb)

\* the initial-load effect without its setContent(savedNotes)
ReactInitialLoadKeepsContent(tb, env) ==
    IF env = "noaccess"
    THEN Effect([tb EXCEPT !.phase = "aborted"], FALSE, FALSE, NULL, FALSE, FALSE, FALSE)
    ELSE IF ProbeOK(env)
         THEN WithRead(Effect([tb EXCEPT !.phase = "running"],
                              TRUE, FALSE, NULL, TRUE, FALSE, FALSE))
         ELSE Effect([tb EXCEPT !.phase = "blocked", !.showError = TRUE],
                     TRUE, FALSE, NULL, FALSE, FALSE, TRUE)

\* the initial-load effect
ReactInitialLoad(tb, env) ==
    IF env = "noaccess"
    THEN \* the theme read throws inside the effect: nothing is rendered
         Effect([tb EXCEPT !.phase = "aborted"], FALSE, FALSE, NULL, FALSE, FALSE, FALSE)
    ELSE LET themed == [tb EXCEPT !.isDark = (store.theme = "dark")]
         IN  IF ProbeOK(env)
             THEN WithRead(Effect([themed EXCEPT !.phase = "running",
                                        !.content = IF store.note # NULL THEN store.note ELSE @],
                                  TRUE, FALSE, NULL, TRUE, FALSE, FALSE))
             ELSE Effect([themed EXCEPT !.phase = "blocked", !.showError = TRUE],
                         TRUE, FALSE, NULL, FALSE, FALSE, TRUE)

\* toggleTheme(): the state and the body class change, then the theme key is
\* written outside any try; wrote tells whether setItem returned.
ReactToggleTheme(tb, env) ==
    LET newDark == ~tb.isDark
    IN  [tb |-> [tb EXCEPT !.isDark = newDark],
         wrote |-> ProbeOK(env),
         value |-> IF newDark THEN "dark" ELSE "light"]


\* ------------------------------------------------------ dispatch on impl
SaveNotes(tb, text, env) ==
    IF impl = "legacy" THEN LegacySaveNotes(tb, env) ELSE ReactSaveNotes(tb, text, env)

HandleInput(tb, v) ==
    IF impl = "legacy" THEN LegacyHandleInput(tb, v) ELSE ReactHandleInput(tb, v)

HandleStorage(tb, key, newValue) ==
    IF impl = "legacy" THEN LegacyHandleStorageEvent(tb, key, newValue)
    ELSE ReactHandleStorage(tb, key, newValue)

OnHidden(tb, env) ==
    IF impl = "legacy" THEN LegacyOnHidden(tb, env) ELSE ReactHandleVisibilityChange(tb, env)

OnBeforeUnload(tb, env) ==
    IF impl = "legacy" THEN LegacyOnBeforeUnload(tb, env) ELSE ReactHandleBeforeUnload(tb, env)

PageInit(tb, env) ==
    IF impl = "legacy" THEN LegacyInit(tb, env) ELSE ReactInitialLoad(tb, env)

HandleThemeToggle(tb, env) ==
    IF impl = "legacy" THEN LegacyHandleThemeToggle(tb, env) ELSE ReactToggleTheme(tb, env)

\* ----------------------------------------------------------------- storage
\* localStorage.setItem on the note key: the value is stored, and every other
\* listening tab is sent a storage event when the value changed.
Notified(t, q, v) ==
    [u \in Tabs |-> IF u # t /\ Listening(tabs[u]) /\ store.note # v
                    THEN Append(q[u], v) ELSE q[u]]

Room(t, v) ==
    \A u \in Tabs : (u # t /\ Listening(tabs[u]) /\ store.note # v) => Len(queue[u]) < MaxQueue

\* One handler of tab t ran with effect eff; q is the queue it leaves behind.
Ran(t, op, env, eff, pending, key, newValue, q) ==
    /\ (eff.wrote /\ eff.ok) => Room(t, eff.wval)
    /\ tabs' = [tabs EXCEPT ![t] = eff.tb]
    /\ store' = IF eff.wrote /\ eff.ok THEN [store EXCEPT !.note = eff.wval] ELSE store
    /\ queue' = IF eff.wrote /\ eff.ok THEN Notified(t, q, eff.wval) ELSE q
    /\ last' = [tab |-> t, op |-> op, env |-> IF eff.probe THEN env ELSE "-",
                probe |-> eff.probe, wrote |-> eff.wrote,
                ok |-> eff.ok, alert |-> eff.alert, notice |-> eff.notice,
                read |-> eff.read, pending |-> pending, key |-> key,
                newValue |-> newValue, changed |-> (eff.tb.content # tabs[t].content)]
    /\ saved' = IF eff.wrote /\ eff.ok THEN eff.wval ELSE saved
    /\ UNCHANGED <<impl, pair>>

\* ----------------------------------------------------------------- actions
\* A page just opened on a working storage without a note: what init() and
\* the initial-load effect both leave behind.
OpenedTab == [ClosedTab EXCEPT !.phase = "running"]

Init ==
    /\ impl \in Impls
    /\ store = [note |-> NULL, theme |-> NULL]
    /\ tabs = [t \in Tabs |-> ClosedTab]
    /\ queue = [t \in Tabs |-> << >>]
    /\ last = [tab |-> 0, op |-> "none", env |-> "-", probe |-> FALSE, wrote |-> FALSE,
               ok |-> FALSE, alert |-> FALSE, notice |-> FALSE,
               read |-> FALSE, pending |-> FALSE, key |-> NULL, newValue |-> NULL,
               changed |-> FALSE]
    /\ saved = NULL
    /\ budget = MaxInputs
    /\ pair = [L |-> OpenedTab, R |-> OpenedTab, noteL |-> NULL, noteR |-> NULL,
               event |-> "none"]

\* The page is opened (or reloaded) in tab t.
Startup(t, env) ==
    /\ tabs[t].phase = "closed"
    /\ Ran(t, "startup", env, PageInit(ClosedTab, env), FALSE, NULL, NULL,
           [queue EXCEPT ![t] = << >>])
    /\ UNCHANGED budget

\* The user changes the text to v.
Typed(tb, v) ==
    [tb EXCEPT !.typed = v, !.writes = 0,
               !.burst = IF tb.cycle # << >> /\ SaveTimers(tb) # {} THEN 2 ELSE 1,
               !.cycle = IF tb.status = "saving" /\ @ # << >> THEN @ ELSE <<tb.status>>]

Input(t, v) ==
    /\ Listening(tabs[t])
    /\ Ran(t, "input", "-", NoEffect(HandleInput(Typed(tabs[t], v), v)),
           SaveTimers(tabs[t]) # {}, NULL, NULL, queue)
    /\ UNCHANGED budget

\* The same, while the user still has changes to make.
InputB(t, v) ==
    /\ budget > 0
    /\ Listening(tabs[t])
    /\ Ran(t, "input", "-", NoEffect(HandleInput(Typed(tabs[t], v), v)),
           SaveTimers(tabs[t]) # {}, NULL, NULL, queue)
    /\ budget' = budget - 1

\* A save timer of tab t fires.
SaveTimerFire(t, env) ==
    \E x \in SaveTimers(tabs[t]) :
        /\ Ran(t, "saveTimer", env,
               SaveNotes([tabs[t] EXCEPT !.timers = @ \ {x}], x.text, env),
               FALSE, NULL, NULL, queue)
        /\ UNCHANGED budget

\* A status-reset timer of tab t fires.
StatusTimerFire(t) ==
    \E x \in StatusTimers(tabs[t]) :
        /\ Ran(t, "statusTimer", "-",
               NoEffect(SetStatus([tabs[t] EXCEPT !.timers = @ \ {x}], "default")),
               FALSE, NULL, NULL, queue)
        /\ UNCHANGED budget

\* Tab t is delivered the next storage event for the note key.
StorageEvent(t) ==
    /\ Listening(tabs[t])
    /\ queue[t] # << >>
    /\ Ran(t, "storage", "-",
           NoEffect(HandleStorage(Disturb(tabs[t]), "scratchpad_notes", Head(queue[t]))),
           FALSE, "scratchpad_notes", Head(queue[t]),
           [queue EXCEPT ![t] = Tail(@)])
    /\ UNCHANGED budget

\* Tab t is delivered a storage event for another key.
OtherKeys == {"scratchpad_theme", "__localStorage_test__"}

OtherStorageEvent(t, key, newValue) ==
    /\ Listening(tabs[t])
    /\ Ran(t, "storage", "-", NoEffect(HandleStorage(Disturb(tabs[t]), key, newValue)),
           FALSE, key, newValue, queue)
    /\ UNCHANGED budget

\* The page of tab t becomes hidden.
Hide(t, env) ==
    /\ Listening(tabs[t])
    /\ Ran(t, "hide", env, OnHidden(Disturb(tabs[t]), env),
           SaveTimers(tabs[t]) # {}, NULL, NULL, queue)
    /\ UNCHANGED budget

\* beforeunload is dispatched to tab t and the page stays (navigation cancelled).
BeforeUnload(t, env) ==
    /\ Listening(tabs[t])
    /\ Ran(t, "unload", env, OnBeforeUnload(Disturb(tabs[t]), env),
           SaveTimers(tabs[t]) # {}, NULL, NULL, queue)
    /\ UNCHANGED budget

\* Tab t is closed: beforeunload runs, then the page and its timers are gone.
Close(t, env) ==
    /\ tabs[t].phase # "closed"
    /\ LET eff == IF Listening(tabs[t]) THEN OnBeforeUnload(tabs[t], env)
                  ELSE NoEffect(tabs[t])
       IN  Ran(t, "close", env, [eff EXCEPT !.tb = ClosedTab],
               SaveTimers(tabs[t]) # {}, NULL, NULL, [queue EXCEPT ![t] = << >>])
    /\ UNCHANGED budget

\* The user dismisses the storage-unavailable notice.
CloseError(t) ==
    /\ tabs[t].showError
    /\ Listening(tabs[t])
    /\ Ran(t, "closeError", "-", NoEffect([tabs[t] EXCEPT !.showError = FALSE]),
           FALSE, NULL, NULL, queue)
    /\ UNCHANGED budget

\* The user clicks the theme button of tab t.  The script registers the
\* click listener after its availability check passed, the component renders
\* the button whenever it is mounted.
ToggleTheme(t, env) ==
    /\ Listening(tabs[t])
    /\ LET eff == HandleThemeToggle(tabs[t], env)
       IN  /\ tabs' = [tabs EXCEPT ![t] = eff.tb]
           /\ store' = IF eff.wrote THEN [store EXCEPT !.theme = eff.value] ELSE store
    /\ last' = [tab |-> t, op |-> "toggle", env |-> env, probe |-> FALSE, wrote |-> FALSE,
                ok |-> FALSE, alert |-> FALSE, notice |-> FALSE,
                read |-> FALSE, pending |-> SaveTimers(tabs[t]) # {}, key |-> NULL,
                newValue |-> NULL, changed |-> FALSE]
    /\ UNCHANGED <<impl, queue, saved, budget, pair>>

\* Another document of the same origin sets the note key to v, or removes it.
ExternalWrite(v) ==
    /\ store.note # v
    /\ Room(0, v)
    /\ store' = [store EXCEPT !.note = v]
    /\ queue' = Notified(0, queue, v)
    /\ last' = [tab |-> 0, op |-> "external", env |-> "-", probe |-> FALSE, wrote |-> FALSE,
                ok |-> FALSE, alert |-> FALSE, notice |-> FALSE,
                read |-> FALSE, pending |-> FALSE, key |-> NULL, newValue |-> NULL,
                changed |-> FALSE]
    /\ saved' = NULL
    /\ UNCHANGED <<impl, tabs, budget, pair>>

\* ---------------------------------------------------------- specifications
TabNext(t) ==
    \/ \E env \in StartEnvs : Startup(t, env)
    \/ \E v \in Values : Input(t, v)
    \/ \E env \in SaveEnvs : SaveTimerFire(t, env)
    \/ StatusTimerFire(t)
    \/ StorageEvent(t)
    \/ \E key \in OtherKeys, newValue \in {NULL, "a"} : OtherStorageEvent(t, key, newValue)
    \/ \E env \in SaveEnvs : Hide(t, env)
    \/ \E env \in SaveEnvs : BeforeUnload(t, env)
    \/ \E env \in SaveEnvs : Close(t, env)
    \/ CloseError(t)

\* One tab, and other documents of the origin writing the note key.
Next ==
    \/ TabNext(1)
    \/ \E v \in Values \cup {NULL} : ExternalWrite(v)

Spec == Init /\ [][Next]_vars

\* Two tabs sharing a working storage, nothing else writing it: typing,
\* timer firings and the delivery of storage events, in any interleaving.
SyncNext(t) ==
    \/ Startup(t, "ok")
    \/ \E v \in Values : Input(t, v)
    \/ SaveTimerFire(t, "ok")
    \/ StatusTimerFire(t)
    \/ StorageEvent(t)

NextTabs == \E t \in Tabs : SyncNext(t)

SpecTabs == Init /\ [][NextTabs]_vars

\* One tab on a working storage whose user stops typing after MaxInputs
\* changes; a timer that is pending eventually fires.
LiveNext ==
    \/ Startup(1, "ok")
    \/ \E v \in Values : InputB(1, v)
    \/ SaveTimerFire(1, "ok")
    \/ StatusTimerFire(1)
    \/ Hide(1, "ok")
    \/ BeforeUnload(1, "ok")

SpecLive ==
    /\ Init
    /\ [][LiveNext]_vars
    /\ WF_vars(SaveTimerFire(1, "ok"))
    /\ WF_vars(StatusTimerFire(1))

\* One tab and its theme button: the page is opened, used, closed and
\* opened again, on a storage that may refuse access or writes.
ThemeEnvs == {"ok", "nowrite"}

NextTheme ==
    \/ \E env \in StartEnvs : Startup(1, env)
    \/ \E env \in ThemeEnvs : ToggleTheme(1, env)
    \/ \E v \in Values : Input(1, v)
    \/ \E env \in ThemeEnvs : SaveTimerFire(1, env)
    \/ StatusTimerFire(1)
    \/ Close(1, "ok")

SpecTheme == Init /\ [][NextTheme]_vars

\* ------------------------------------------------- the two versions in lockstep
\* The script page runs on storage noteL, the component page on storage
\* noteR; every event reaches both.  A timer event is the passing of the
\* timer's delay: each page that has such a timer live runs its callback.
PairRan(event, effL, effR) ==
    /\ pair' = [L |-> effL.tb, R |-> effR.tb,
                noteL |-> IF effL.wrote /\ effL.ok THEN effL.wval ELSE pair.noteL,
                noteR |-> IF effR.wrote /\ effR.ok THEN effR.wval ELSE pair.noteR,
                event |-> event]
    /\ UNCHANGED <<impl, store, tabs, queue, last, saved, budget>>

\* Both pages have their listeners registered.
PairListening == pair.L.phase = "running" /\ pair.R.phase = "running"

PairInput(v) ==
    /\ PairListening
    /\ PairRan("input", NoEffect(LegacyHandleInput(pair.L, v)),
                        NoEffect(ReactHandleInput(pair.R, v)))

PairSaveTimerFire(env) ==
    /\ SaveTimers(pair.L) \cup SaveTimers(pair.R) # {}
    /\ PairRan("saveTimer",
               IF SaveTimers(pair.L) = {} THEN NoEffect(pair.L)
               ELSE LegacySaveNotes([pair.L EXCEPT !.timers = @ \ SaveTimers(pair.L)], env),
               IF SaveTimers(pair.R) = {} THEN NoEffect(pair.R)
               ELSE LET x == CHOOSE x \in SaveTimers(pair.R) : TRUE
                    IN  ReactSaveNotes([pair.R EXCEPT !.timers = @ \ {x}], x.text, env))

PairStatusTimerFire ==
    /\ StatusTimers(pair.L) \cup StatusTimers(pair.R) # {}
    /\ PairRan("statusTimer",
               IF StatusTimers(pair.L) = {} THEN NoEffect(pair.L)
               ELSE NoEffect(SetStatus([pair.L EXCEPT !.timers = @ \ StatusTimers(pair.L)],
                                       "default")),
               IF StatusTimers(pair.R) = {} THEN NoEffect(pair.R)
               ELSE NoEffect(SetStatus([pair.R EXCEPT !.timers = @ \ StatusTimers(pair.R)],
                                       "default")))

PairHide(env) ==
    /\ PairListening
    /\ PairRan("hide", LegacyOnHidden(pair.L, env), ReactHandleVisibilityChange(pair.R, env))

PairBeforeUnload(env) ==
    /\ PairListening
    /\ PairRan("unload", LegacyOnBeforeUnload(pair.L, env),
                         ReactHandleBeforeUnload(pair.R, env))

\* Another document sets the note key of both storages to v (or removes it):
\* a page is notified when the value of its storage changed.
PairStorage(v) ==
    /\ PairListening
    /\ pair.noteL # v \/ pair.noteR # v
    /\ pair' = [L |-> IF pair.noteL # v
                      THEN LegacyHandleStorageEvent(pair.L, "scratchpad_notes", v)
                      ELSE pair.L,
                R |-> IF pair.noteR # v
                      THEN ReactHandleStorage(pair.R, "scratchpad_notes", v)
                      ELSE pair.R,
                noteL |-> v, noteR |-> v, event |-> "storage"]
    /\ UNCHANGED <<impl, store, tabs, queue, last, saved, budget>>

NextPair ==
    \/ \E v \in Values : PairInput(v)
    \/ \E env \in SaveEnvs : PairSaveTimerFire(env)
    \/ PairStatusTimerFire
    \/ \E env \in SaveEnvs : PairHide(env)
    \/ \E env \in SaveEnvs : PairBeforeUnload(env)
    \/ \E v \in Values \cup {NULL} : PairStorage(v)

SpecPair == Init /\ [][NextPair]_vars

\* ------------------------------------------------------------------ claims
Stored == IF store.note = NULL THEN "" ELSE store.note

\* The tab has handled only content changes and timer firings since its
\* latest content change.
InBurst(t) == tabs[t].cycle # << >>

\* C1 -- Debounce coalescing: while a burst of content changes is pending no
\* write of the note key has happened and one save timer is live; when the
\* timer fires on a working storage the burst has caused exactly one write,
\* the note key holds the text of the last change and no save timer is left.
C1_DebounceCoalescing ==
    \A t \in Tabs :
        InBurst(t) =>
            /\ SaveTimers(tabs[t]) # {} =>
                   tabs[t].writes = 0 /\ Cardinality(SaveTimers(tabs[t])) = 1
            /\ (last.tab = t /\ last.op = "saveTimer" /\ last.env = "ok") =>
                   /\ tabs[t].writes = 1
                   /\ store.note = tabs[t].typed
                   /\ SaveTimers(tabs[t]) = {}

\* A burst of at least two changes has been written once, as its last text.
C1_Witness ==
    /\ InBurst(1) /\ tabs[1].burst = 2
    /\ last.tab = 1 /\ last.op = "saveTimer" /\ last.env = "ok"
    /\ tabs[1].writes = 1 /\ store.note = tabs[1].typed /\ tabs[1].typed = "b"

IsPrefix(a, b) == Len(a) <= Len(b) /\ \A i \in 1..Len(a) : a[i] = b[i]

\* A burst of content changes that began while the status was default and
\* during which no save has failed.
FromDefault(t) ==
    /\ InBurst(t)
    /\ tabs[t].cycle[1] = "default"
    /\ \A i \in 1..Len(tabs[t].cycle) : tabs[t].cycle[i] # "error"

C2_Statuses ==
    \A t \in Tabs :
        FromDefault(t) =>
            /\ IsPrefix(tabs[t].cycle, <<"default", "saving", "saved", "default">>)
            /\ (last.tab = t /\ last.op = "saveTimer") =>
                   /\ tabs[t].status = "saved"
                   /\ store.note = tabs[t].typed
                   /\ Cardinality(StatusTimers(tabs[t])) = 1
            /\ (last.tab = t /\ last.op = "statusTimer") =>
                   tabs[t].status = "default" /\ StatusTimers(tabs[t]) = {}

\* C2 -- Save cycle: on a working storage a content change made while the
\* status is default and followed by nothing but timer firings shows the
\* statuses default, saving, saved, default in that order and no other; when
\* the save timer has fired the note key holds the typed text; when the
\* status-reset timer has fired the status is default.  With timers that
\* fire when pending and a user who stops typing, a pending save is
\* eventually stored as the tab's content and the status eventually returns
\* to default.
C2_SaveCycle ==
    /\ []C2_Statuses
    /\ \A t \in Tabs :
           (SaveTimers(tabs[t]) # {})
               ~> (SaveTimers(tabs[t]) = {} /\ store.note = tabs[t].content)
    /\ \A t \in Tabs : (tabs[t].status # "default") ~> (tabs[t].status = "default")

\* The whole cycle has been shown and the typed text is stored.
C2_Witness ==
    /\ tabs[1].cycle = <<"default", "saving", "saved", "default">>
    /\ last.op = "statusTimer"
    /\ tabs[1].typed = "a" /\ store.note = "a"

\* C3 -- Save-on-exit flush: when the page becomes hidden or is about to
\* unload while a save timer is pending and the storage works, after the
\* handler no save timer is live and the note key holds the tab's content.
C3_FlushOnExit ==
    \A t \in Tabs :
        (last.tab = t /\ last.op \in {"hide", "unload"} /\ last.pending /\ last.env = "ok") =>
            /\ SaveTimers(tabs[t]) = {}
            /\ store.note = tabs[t].content

\* C4 -- Startup with unusable storage: after a startup at which the storage
\* could not be used the notice is shown and the note key was not read, and
\* no later handler of that page probes the storage or writes the note key.
C4_StartupBlocked ==
    \A t \in Tabs :
        (tabs[t].phase \in {"blocked", "aborted"} /\ last.tab = t) =>
            /\ last.op = "startup" => tabs[t].showError /\ ~last.read
            /\ last.op # "startup" => ~last.probe /\ ~last.wrote

\* C5 -- Write failure: a write of the note key that throws leaves the status
\* error and the store as it was; the quota alert is shown exactly when the
\* error is the quota error, and the storage-unavailable notice is not shown
\* by that handler.  (A page that is closing is gone after the handler: only
\* the store and the alert are observed of it.)
C5_WriteFailure ==
    [][\A t \in Tabs :
          (last'.tab = t /\ last'.wrote /\ ~last'.ok) =>
              /\ store' = store
              /\ last'.alert = (last'.env = "quota")
              /\ ~last'.notice
              /\ last'.op # "close" =>
                     /\ tabs'[t].status = "error"
                     /\ tabs'[t].showError = tabs[t].showError]_vars

\* A write has thrown the quota error while the notice was not showing.
C5_Witness ==
    /\ last.tab = 1 /\ last.wrote /\ ~last.ok /\ last.env = "quota" /\ last.alert
    /\ tabs[1].status = "error" /\ ~tabs[1].showError /\ store.note = "a"
    /\ tabs[1].content = "b"

\* What a storage event for the note key leaves as the content.
Reconciled(content, newValue) ==
    IF newValue # content THEN (IF newValue = NULL THEN "" ELSE newValue) ELSE content

\* C6 -- Cross-tab reconciliation: a storage event for the note key whose new
\* value differs from the content makes the content that value, or the empty
\* string when it carries none; an event for another key, or with the
\* content as its new value, leaves the content as it was.
C6_Reconciliation ==
    [][\A t \in Tabs :
          (last'.tab = t /\ last'.op = "storage") =>
              tabs'[t].content =
                  IF last'.key = "scratchpad_notes"
                  THEN Reconciled(tabs[t].content, last'.newValue)
                  ELSE tabs[t].content]_vars

\* An event without a value has emptied a non-empty content.
C6_Witness ==
    /\ last.tab = 1 /\ last.op = "storage" /\ last.key = "scratchpad_notes"
    /\ last.newValue = NULL /\ last.changed /\ tabs[1].content = ""

\* C7 -- Multi-tab sync converges: once no tab has a save timer pending and
\* every storage event is delivered, each tab shows the stored note.
C7_Converges ==
    (\A t \in Tabs : SaveTimers(tabs[t]) = {} /\ queue[t] = << >>) =>
        \A t \in Tabs : Listening(tabs[t]) => tabs[t].content = Stored

\* C8 -- Round trip: a startup on a working storage leaves as the content the
\* text the page last saved, the empty string included.
C8_RoundTrip ==
    \A t \in Tabs :
        (last.tab = t /\ last.op = "startup" /\ last.read /\ saved # NULL) =>
            tabs[t].content = saved

\* A text the page saved has been loaded again.
C8_Witness ==
    /\ last.tab = 1 /\ last.op = "startup" /\ last.read
    /\ saved = "b" /\ tabs[1].content = "b"

\* C9 -- Stored equals in-memory after a save: right after a successful save,
\* by the save timer or by the hide/unload flush, the note key holds the
\* tab's content.
C9_StoredEqualsMemory ==
    \A t \in Tabs :
        (last.tab = t /\ last.op \in {"saveTimer", "hide", "unload"} /\ last.wrote /\ last.ok) =>
            store.note = tabs[t].content

\* C10 -- Single-slot timers: a tab has at most one live save timer and at
\* most one live status-reset timer.
C10_SingleSlotTimers ==
    \A t \in Tabs :
        /\ Cardinality(SaveTimers(tabs[t])) <= 1
        /\ Cardinality(StatusTimers(tabs[t])) <= 1

\* A save timer has been restarted while a status-reset timer is live.
C10_Witness ==
    /\ last.tab = 1 /\ last.op = "input" /\ last.pending
    /\ Cardinality(SaveTimers(tabs[1])) = 1
    /\ Cardinality(StatusTimers(tabs[1])) = 1

\* C11 -- A content-change event cancels the status-reset timer: after a
\* content change no status-reset timer is live, and a status-reset timer
\* never fires while the status is saving or error.
C11_InputCancelsReset ==
    [][\A t \in Tabs :
          /\ (last'.tab = t /\ last'.op = "input") => StatusTimers(tabs'[t]) = {}
          /\ (last'.tab = t /\ last'.op = "statusTimer") =>
                 tabs[t].status \notin {"saving", "error"}]_vars

\* C12 -- Save-timer fire with unusable storage: when the save timer fires
\* and the probe fails, the status becomes error and the notice is shown, no
\* write of the note key is attempted, the store and the content stay as
\* they were and no status-reset timer is started.
C12_FireWhileUnusable ==
    [][\A t \in Tabs :
          (last'.tab = t /\ last'.op = "saveTimer" /\ last'.env = "nowrite") =>
              /\ tabs'[t].status = "error"
              /\ tabs'[t].showError /\ last'.notice
              /\ ~last'.wrote
              /\ store' = store
              /\ tabs'[t].content = tabs[t].content
              /\ StatusTimers(tabs'[t]) \subseteq StatusTimers(tabs[t])]_vars

\* The save timer has fired on an unusable storage while text was stored.
C12_Witness ==
    /\ last.tab = 1 /\ last.op = "saveTimer" /\ last.env = "nowrite"
    /\ tabs[1].status = "error" /\ tabs[1].showError
    /\ store.note = "a" /\ tabs[1].content = "b"

\* C13 -- No automatic retry: while the status shows the error of a failed
\* save, no handler other than that of a content change probes the storage
\* or writes the note key.
C13_NoRetry ==
    [][\A t \in Tabs :
          (tabs[t].status = "error" /\ last'.tab = t /\ last'.op # "input") =>
              ~last'.probe /\ ~last'.wrote]_vars

\* C14 -- Initial state: after a startup on a working storage the status is
\* default, no timer is live and the content is the stored note, or empty
\* when the key is absent.
C14_InitialState ==
    \A t \in Tabs :
        (last.tab = t /\ last.op = "startup" /\ last.env = "ok") =>
            /\ tabs[t].phase = "running"
            /\ tabs[t].status = "default"
            /\ tabs[t].timers = {}
            /\ tabs[t].content = Stored

\* A page has started on a stored note.
C14_Witness ==
    /\ last.tab = 1 /\ last.op = "startup" /\ last.env = "ok"
    /\ store.note = "a" /\ tabs[1].content = "a" /\ tabs[1].status = "default"

\* C17 -- Status saving matches the debounce window: the status of an open
\* page is saving exactly when a save timer is pending.
C17_SavingIffPending ==
    \A t \in Tabs :
        Listening(tabs[t]) => ((tabs[t].status = "saving") <=> (SaveTimers(tabs[t]) # {}))

\* C18 -- Hide/unload without a pending save is a no-op: the handler neither
\* probes nor writes the storage and leaves the status and the status-reset
\* timer as they were.
C18_IdleExitNoOp ==
    [][\A t \in Tabs :
          (last'.tab = t /\ last'.op \in {"hide", "unload"} /\ ~last'.pending) =>
              /\ ~last'.probe /\ ~last'.wrote
              /\ store' = store
              /\ tabs'[t].status = tabs[t].status
              /\ StatusTimers(tabs'[t]) = StatusTimers(tabs[t])]_vars

\* C19 -- Applying a remote update has no side effects: the handler of a
\* storage event changes at most the content; it writes nothing, leaves the
\* status and the notice as they were and starts or cancels no timer.
C19_RemoteUpdateFrame ==
    [][\A t \in Tabs :
          (last'.tab = t /\ last'.op = "storage") =>
              /\ ~last'.probe /\ ~last'.wrote
              /\ store' = store
              /\ tabs'[t].status = tabs[t].status
              /\ tabs'[t].showError = tabs[t].showError
              /\ tabs'[t].timers = tabs[t].timers
              /\ tabs'[t].saveTimeout = tabs[t].saveTimeout
              /\ tabs'[t].statusTimeout = tabs[t].statusTimeout]_vars

\* A remote value has replaced the content while a save was pending.
C19_Witness ==
    /\ last.tab = 1 /\ last.op = "storage" /\ last.changed
    /\ tabs[1].status = "saving" /\ SaveTimers(tabs[1]) # {}
    /\ tabs[1].content = "b"

\* C16 -- Theme preference: a startup shows dark exactly when the theme key
\* holds "dark"; a click on the theme button flips the displayed theme, leaves
\* the theme key equal to the displayed theme, and changes neither the note
\* key nor the content, the status or the timers.
C16_ThemePreference ==
    [][\A t \in Tabs :
          /\ (last'.tab = t /\ last'.op = "startup") =>
                 (tabs'[t].isDark <=> store'.theme = "dark")
          /\ (last'.tab = t /\ last'.op = "toggle") =>
                 /\ tabs'[t].isDark = ~tabs[t].isDark
                 /\ store'.theme = IF tabs'[t].isDark THEN "dark" ELSE "light"
                 /\ store'.note = store.note
                 /\ tabs'[t].content = tabs[t].content
                 /\ tabs'[t].status = tabs[t].status
                 /\ tabs'[t].timers = tabs[t].timers]_vars

\* C15 -- The two implementations are the same state machine: fed the same
\* events, the script page and the component page show the same status and
\* leave the same value under the note key after every step.
C15_SameMachine ==
    /\ pair.L.status = pair.R.status
    /\ pair.noteL = pair.noteR


====
